---- MODULE Spec2Model ----
(***************************************************************************)
(* Model of the Dynamic Font Size plugin (src/src/main.ts).                *)
(*                                                                         *)
(* Numbers are fixed-point: a finite number is an integer count of         *)
(* 10^-Precision rem; NaN and the two infinities are separate kinds.       *)
(* Strings are sequences of one-character strings, so that parsing and     *)
(* formatting are computed character by character.                         *)
(***************************************************************************)
EXTENDS Integers, Sequences, FiniteSets, TLC

\* ------------------------------------------------------------ bounds
\* decimal digits kept after the point by the fixed-point numbers
Precision == 3
\* front-matter writes that may be in flight at once
MaxPending == 1

\* front-matter writes that may race in SpecSlider
MaxRacing == 2

Unit == 10 ^ Precision

\* ------------------------------------------------------------ numbers
Fin(n) == [k |-> "fin", v |-> n]
NaN == [k |-> "nan", v |-> 0]
PosInf == [k |-> "pinf", v |-> 0]
NegInf == [k |-> "ninf", v |-> 0]

\* isNaN(x)
IsNaN(x) == x.k = "nan"

IsFinite(x) == x.k = "fin"

\* x < y on numbers (false when either is NaN)
NumLt(x, y) ==
  /\ ~IsNaN(x)
  /\ ~IsNaN(y)
  /\ \/ x.k = "ninf" /\ y.k # "ninf"
     \/ x.k = "fin" /\ y.k = "pinf"
     \/ x.k = "fin" /\ y.k = "fin" /\ x.v < y.v

NumLe(x, y) == ~IsNaN(x) /\ ~IsNaN(y) /\ (x = y \/ NumLt(x, y))

\* Math.min(a, b)
MathMin(a, b) ==
  IF IsNaN(a) \/ IsNaN(b) THEN NaN
  ELSE IF NumLt(b, a) THEN b ELSE a

\* Math.max(a, b)
MathMax(a, b) ==
  IF IsNaN(a) \/ IsNaN(b) THEN NaN
  ELSE IF NumLt(a, b) THEN b ELSE a

\* ------------------------------------------------------------ characters
Digits == <<"0", "1", "2", "3", "4", "5", "6", "7", "8", "9">>

IsDigit(c) == \E i \in 1..10 : Digits[i] = c

DigitVal(c) == (CHOOSE i \in 1..10 : Digits[i] = c) - 1

DigitChar(d) == Digits[d + 1]

IsSpace(c) == c \in {" ", "\t", "\n"}

\* s without its first n characters
Drop(s, n) == IF n >= Len(s) THEN <<>> ELSE SubSeq(s, n + 1, Len(s))

\* the first n characters of s
Take(s, n) == IF n >= Len(s) THEN s ELSE SubSeq(s, 1, n)

StartsWith(s, p) == Len(s) >= Len(p) /\ SubSeq(s, 1, Len(p)) = p

RemStr == <<"r", "e", "m">>
InfinityStr == <<"I", "n", "f", "i", "n", "i", "t", "y">>
NaNStr == <<"N", "a", "N">>

\* ------------------------------------------------------------ String.prototype
\* s.replace("rem", ""): the first occurrence only
RECURSIVE ReplaceRem(_)
ReplaceRem(s) ==
  IF Len(s) < Len(RemStr) THEN s
  ELSE IF StartsWith(s, RemStr) THEN Drop(s, Len(RemStr))
  ELSE <<Head(s)>> \o ReplaceRem(Tail(s))

RECURSIVE TrimStart(_)
TrimStart(s) ==
  IF s # <<>> /\ IsSpace(Head(s)) THEN TrimStart(Tail(s)) ELSE s

RECURSIVE TrimEnd(_)
TrimEnd(s) ==
  IF s # <<>> /\ IsSpace(s[Len(s)]) THEN TrimEnd(Take(s, Len(s) - 1)) ELSE s

\* s.trim()
Trim(s) == TrimEnd(TrimStart(s))

\* ------------------------------------------------------------ parseFloat
\* number of leading decimal digits of s
RECURSIVE DigitRun(_)
DigitRun(s) ==
  IF s # <<>> /\ IsDigit(Head(s)) THEN 1 + DigitRun(Tail(s)) ELSE 0

\* value of the digit string s as an integer
RECURSIVE DigitsValue(_)
DigitsValue(s) ==
  IF s = <<>> THEN 0
  ELSE 10 * DigitsValue(Take(s, Len(s) - 1)) + DigitVal(s[Len(s)])

\* value of the fraction digits s in units, digits past Precision dropped
RECURSIVE FractionValue(_, _)
FractionValue(s, scale) ==
  IF s = <<>> \/ scale = 0 THEN 0
  ELSE DigitVal(Head(s)) * scale + FractionValue(Tail(s), scale \div 10)

\* the unsigned decimal literal at the start of s: [ok, v, rest]
ParseMantissa(s) ==
  LET ni == DigitRun(s)
      afterInt == Drop(s, ni)
      hasDot == afterInt # <<>> /\ Head(afterInt) = "."
      nf == IF hasDot THEN DigitRun(Tail(afterInt)) ELSE 0
      frac == IF hasDot THEN Take(Tail(afterInt), nf) ELSE <<>>
      used == ni + (IF hasDot /\ (ni > 0 \/ nf > 0) THEN 1 + nf ELSE 0)
  IN [ok |-> ni > 0 \/ nf > 0,
      v |-> DigitsValue(Take(s, ni)) * Unit + FractionValue(frac, Unit \div 10),
      rest |-> Drop(s, used)]

\* the exponent part at the start of s, if there is one: [ok, neg, e]
ParseExponent(s) ==
  LET hasE == s # <<>> /\ Head(s) \in {"e", "E"}
      t == IF hasE THEN Tail(s) ELSE <<>>
      signed == t # <<>> /\ Head(t) \in {"+", "-"}
      d == IF signed THEN Tail(t) ELSE t
      n == DigitRun(d)
  IN [ok |-> hasE /\ n > 0,
      neg |-> signed /\ Head(t) = "-",
      e |-> DigitsValue(Take(d, n))]

\* exponents from which every nonzero literal overflows a double
ExpOverflow == 309 + Precision

Scale(v, ex) ==
  IF ~ex.ok THEN Fin(v)
  ELSE IF v = 0 THEN Fin(0)
  ELSE IF ex.neg THEN Fin(v \div (10 ^ ex.e))
  ELSE IF ex.e >= ExpOverflow THEN PosInf
  ELSE Fin(v * (10 ^ ex.e))

Negate(x) ==
  CASE x.k = "fin" -> Fin(0 - x.v)
    [] x.k = "pinf" -> NegInf
    [] x.k = "ninf" -> PosInf
    [] OTHER -> NaN

\* parseFloat(s)
ParseFloat(s) ==
  LET t == TrimStart(s)
      signed == t # <<>> /\ Head(t) \in {"+", "-"}
      neg == signed /\ Head(t) = "-"
      u == IF signed THEN Tail(t) ELSE t
      m == ParseMantissa(u)
      mag == IF StartsWith(u, InfinityStr) THEN PosInf
             ELSE IF m.ok THEN Scale(m.v, ParseExponent(m.rest))
             ELSE NaN
  IN IF neg THEN Negate(mag) ELSE mag

\* ------------------------------------------------------------ formatting
RECURSIVE NatChars(_)
NatChars(n) ==
  IF n < 10 THEN <<DigitChar(n)>>
  ELSE NatChars(n \div 10) \o <<DigitChar(n % 10)>>

Abs(n) == IF n < 0 THEN 0 - n ELSE n

\* the digits of n, left-padded with zeros to width w
RECURSIVE PadChars(_, _)
PadChars(n, w) ==
  IF w = 0 THEN <<>>
  ELSE PadChars(n \div 10, w - 1) \o <<DigitChar(n % 10)>>

RECURSIVE StripZeros(_)
StripZeros(s) ==
  IF s # <<>> /\ s[Len(s)] = "0" THEN StripZeros(Take(s, Len(s) - 1)) ELSE s

NonFiniteChars(x) ==
  CASE x.k = "pinf" -> InfinityStr
    [] x.k = "ninf" -> <<"-">> \o InfinityStr
    [] OTHER -> NaNStr

\* x.toFixed(2): nearest hundredth, the larger one on a tie
ToFixed2(x) ==
  IF ~IsFinite(x) THEN NonFiniteChars(x)
  ELSE LET q == (Abs(x.v) * 100 + (Unit \div 2)) \div Unit
       IN (IF x.v < 0 THEN <<"-">> ELSE <<>>)
          \o NatChars(q \div 100) \o <<".">> \o PadChars(q % 100, 2)

\* x.toString()
NumToString(x) ==
  IF ~IsFinite(x) THEN NonFiniteChars(x)
  ELSE LET a == Abs(x.v)
           frac == StripZeros(PadChars(a % Unit, Precision))
       IN (IF x.v < 0 THEN <<"-">> ELSE <<>>)
          \o NatChars(a \div Unit)
          \o (IF frac = <<>> THEN <<>> ELSE <<".">> \o frac)

\* ------------------------------------------------------------ the host
\* the documents of the vault
Files == {"a.md", "b.md"}
NoFile == "null"

\* the open leaves: three Markdown views and one view of another type
Leaves == {"L1", "L2", "L3", "L4"}

\* leaf.view instanceof MarkdownView
IsMarkdownView(l) == l \in {"L1", "L2", "L3"}

\* view.file
ViewFile(l) ==
  CASE l = "L1" -> "a.md"
    [] l = "L2" -> "b.md"
    [] OTHER -> NoFile

\* the subtrees contentEl.querySelector finds in a view
Selectors == {".markdown-preview-view", ".cm-content", ".markdown-source-view"}

ViewElements(l) ==
  CASE l = "L1" -> Selectors
    [] l = "L2" -> {".markdown-preview-view", ".markdown-source-view"}
    [] l = "L3" -> {".cm-content", ".markdown-source-view"}
    [] OTHER -> {}

\* containerEl.querySelector(".view-header") finds an element
HasViewHeader(l) == IsMarkdownView(l)

\* an element without the plugin's inline font size and marker class
Unstyled == [fontSize |-> <<>>, active |-> FALSE]

\* the value of a front-matter field "font-size"
NoFrontmatter == [t |-> "nofm", s |-> <<>>, n |-> NaN]
NoKey == [t |-> "nokey", s |-> <<>>, n |-> NaN]
OtherValue == [t |-> "other", s |-> <<>>, n |-> NaN]
StrValue(s) == [t |-> "string", s |-> s, n |-> NaN]
NumValue(n) == [t |-> "number", s |-> <<>>, n |-> n]

\* ------------------------------------------------------------ settings
Fields == {"minFontSize", "maxFontSize", "defaultFontSize"}

DEFAULT_SETTINGS ==
  [minFontSize |-> Fin(Unit \div 2),
   maxFontSize |-> Fin(3 * Unit),
   defaultFontSize |-> Fin(Unit)]

\* Object.assign({}, DEFAULT_SETTINGS, data)
MergeSettings(d) ==
  [f \in Fields |-> IF f \in DOMAIN d THEN d[f] ELSE DEFAULT_SETTINGS[f]]

VARIABLES
  loaded,           \* the plugin is enabled (between onload and onunload)
  settings,         \* this.settings
  data,             \* the record the host persists for the plugin
  currentFile,      \* this.currentFile
  statusText,       \* text of this.statusBarItem
  statusShown,      \* this.statusBarItem is not hidden
  sliderContainer,  \* this.sliderContainer: <<>> is null, else <<widget>>
  activeLeaf,       \* the workspace's active leaf
  cache,            \* metadataCache: file -> its font-size field
  dom,              \* leaf -> selector -> inline font size and marker class
  headerSliders,    \* leaf -> slider widgets attached to its view header
  writes,           \* front-matter writes in flight
  consoleErrors,    \* console.error has been called
  tick              \* flips whenever a handler runs, also one that changes nothing

vars == <<loaded, settings, data, currentFile, statusText, statusShown,
          sliderContainer, activeLeaf, cache, dom, headerSliders, writes,
          consoleErrors, tick>>

pluginVars == <<settings, data, currentFile, statusText, statusShown,
                sliderContainer, dom, headerSliders>>

\* ------------------------------------------------------------ updateFontSize
\* app.workspace.getActiveViewOfType(MarkdownView), "none" for null
ActiveView(al) == IF IsMarkdownView(al) THEN al ELSE "none"

\* the parse of the font-size field: <<>> is undefined, else <<number>>
ParseFontSize(fm) ==
  IF fm.t = "string" THEN <<ParseFloat(Trim(ReplaceRem(fm.s)))>>
  ELSE IF fm.t = "number" THEN <<fm.n>>
  ELSE <<>>

\* a mutant of IsValidSize: infinities are rejected too
IsValidSizeFiniteOnly(p) == p # <<>> /\ IsFinite(p[1])

\* fontSize !== undefined && !isNaN(fontSize)
IsValidSize(p) == p # <<>> /\ ~IsNaN(p[1])

\* a mutant of Clamp: the lower bound is not applied
ClampUpperOnly(st, x) == MathMin(st.maxFontSize, x)

\* a mutant of Clamp: the bounds are applied in the other order
ClampUpperLast(st, x) == MathMin(st.maxFontSize, MathMax(st.minFontSize, x))

\* a mutant of Clamp: the upper bound is not applied
ClampLowerOnly(st, x) == MathMax(st.minFontSize, x)

\* Math.max(min, Math.min(max, fontSize))
Clamp(st, x) == MathMax(st.minFontSize, MathMin(st.maxFontSize, x))

\* the template `${fontSize}rem`
RemText(x) == NumToString(x) \o RemStr

\* a mutant of ApplyFontSize: every Markdown view is styled
ApplyFontSizeAllViews(d, view, x) ==
  [l \in Leaves |->
     IF IsMarkdownView(l)
     THEN [e \in ViewElements(l) |-> [fontSize |-> RemText(x), active |-> TRUE]]
     ELSE d[l]]

\* applyFontSize(view, fontSize)
ApplyFontSize(d, view, x) ==
  [d EXCEPT ![view] =
     [e \in ViewElements(view) |-> [fontSize |-> RemText(x), active |-> TRUE]]]

\* a mutant of RemoveFontSizeStyle: the styling of every view is removed
RemoveFontSizeStyleEverywhere(d, view) ==
  [l \in Leaves |-> [e \in ViewElements(l) |-> Unstyled]]

\* removeFontSizeStyle(view)
RemoveFontSizeStyle(d, view) ==
  [d EXCEPT ![view] = [e \in ViewElements(view) |-> Unstyled]]

\* a mutant of RemoveAllFontSizeStyles: only the first leaf is visited
RemoveFirstLeafOnly(d) ==
  [d EXCEPT !["L1"] = [e \in ViewElements("L1") |-> Unstyled]]

\* removeAllFontSizeStyles()
RemoveAllFontSizeStyles(d) ==
  [l \in Leaves |->
     IF IsMarkdownView(l) THEN [e \in ViewElements(l) |-> Unstyled] ELSE d[l]]

\* sliderContainer.hide() / .show(), when there is a slider
SetSliderShown(sc, b) ==
  IF sc = <<>> THEN sc ELSE <<[sc[1] EXCEPT !.shown = b]>>

\* a mutant of SyncSlider: the control's value is not set
SyncSliderShowOnly(sc, fontSize) == SetSliderShown(sc, TRUE)

\* slider.value = fontSize.toString(); sliderContainer.show(), when there is
\* a slider
SyncSlider(sc, fontSize) ==
  IF sc = <<>> THEN sc
  ELSE <<[sc[1] EXCEPT !.value = NumToString(fontSize), !.shown = TRUE]>>

\* `Font: ${fontSize.toFixed(2)}rem`
StatusLabel(x) == <<"F", "o", "n", "t", ":", " ">> \o ToFixed2(x) \o RemStr

\* updateFontSize(), run with active leaf al, cache c, settings st and
\* slider reference sc
UpdateFontSize(al, c, st, sc, cf) ==
  LET view == ActiveView(al)
      file == IF view = "none" THEN cf ELSE ViewFile(view)
      parsed == IF file = NoFile \/ view = "none" THEN <<>>
                ELSE ParseFontSize(c[file])
  IN /\ currentFile' = file
     /\ IF view = "none" \/ file = NoFile
        THEN /\ dom' = RemoveAllFontSizeStyles(dom)
             /\ statusShown' = FALSE
             /\ statusText' = statusText
             /\ sliderContainer' = SetSliderShown(sc, FALSE)
        ELSE IF IsValidSize(parsed)
        THEN LET fontSize == Clamp(st, parsed[1])
             IN /\ dom' = ApplyFontSize(dom, view, fontSize)
                /\ statusText' = StatusLabel(fontSize)
                /\ statusShown' = TRUE
                /\ sliderContainer' = SyncSlider(sc, fontSize)
        ELSE /\ dom' = RemoveFontSizeStyle(dom, view)
             /\ statusShown' = FALSE
             /\ statusText' = statusText
             /\ sliderContainer' = SetSliderShown(sc, FALSE)

\* ------------------------------------------------------------ toggleSlider
\* slider.step = "0.05"
SliderStep == Unit \div 20

\* the initial value of the slider: the field's value, else the default
InitialSliderSize(fm, st) ==
  IF fm.t = "string"
  THEN LET p == ParseFloat(Trim(ReplaceRem(fm.s)))
       IN IF IsNaN(p) \/ p = Fin(0) THEN st.defaultFontSize ELSE p
  ELSE IF fm.t = "number" THEN fm.n
  ELSE st.defaultFontSize

\* the widget toggleSlider builds for the view
NewSlider(view, fm, st) ==
  LET currentFontSize == InitialSliderSize(fm, st)
  IN [view |-> view,
      display |-> ToFixed2(currentFontSize) \o RemStr,
      min |-> NumToString(st.minFontSize),
      max |-> NumToString(st.maxFontSize),
      step |-> NumToString(Fin(SliderStep)),
      value |-> NumToString(currentFontSize),
      shown |-> TRUE,
      attached |-> HasViewHeader(view)]

\* a mutant of DetachSlider: the widget is left in the document
DetachSliderNot(hs, sc) == hs

\* the view headers after sliderContainer.remove()
DetachSlider(hs, sc) ==
  IF sc # <<>> /\ sc[1].attached
  THEN [hs EXCEPT ![sc[1].view] = hs[sc[1].view] - 1]
  ELSE hs

\* ------------------------------------------------------------ samples
\* the font-size fields an edit of a document's front-matter produces
FmSamples(f) ==
  IF f = "a.md"
  THEN {NoKey, OtherValue, StrValue(<<"1", ".", "5", "r", "e", "m">>)}
  ELSE {StrValue(<<"2", "r", "e", "m">>), StrValue(<<"a", "b", "c">>)}

\* the texts typed into a field of the settings panel
SettingTexts ==
  {<<"1">>, <<"-", "2">>}

\* the positions the slider is dragged to
SliderInputs == {Fin(Unit)}

\* what the host's data file holds before the plugin first runs
DataSamples == {<<>>}

\* ------------------------------------------------------------ actions
\* onload(), on a fresh plugin instance
OnLoad ==
  /\ ~loaded
  /\ tick' = ~tick
  /\ loaded' = TRUE
  /\ settings' = MergeSettings(data)
  /\ UpdateFontSize(activeLeaf, cache, MergeSettings(data), <<>>, NoFile)
  /\ UNCHANGED <<data, activeLeaf, cache, headerSliders, writes,
                 consoleErrors>>

\* the host disables the plugin: onunload() runs, then the host drops the
\* status bar item, the event handlers and the plugin instance (the fields
\* take the values a new instance starts with)
OnUnload ==
  /\ loaded
  /\ tick' = ~tick
  /\ loaded' = FALSE
  /\ dom' = RemoveAllFontSizeStyles(dom)
  /\ headerSliders' = DetachSlider(headerSliders, sliderContainer)
  /\ statusShown' = FALSE
  /\ statusText' = <<>>
  /\ settings' = DEFAULT_SETTINGS
  /\ currentFile' = NoFile
  /\ sliderContainer' = <<>>
  /\ UNCHANGED <<data, activeLeaf, cache, writes,
                 consoleErrors>>

\* the workspace makes leaf l active and fires "active-leaf-change"
ActiveLeafChange(l) ==
  /\ loaded
  /\ tick' = ~tick
  /\ activeLeaf' = l
  /\ UpdateFontSize(l, cache, settings, sliderContainer, currentFile)
  /\ UNCHANGED <<loaded, settings, data, cache, headerSliders, writes,
                 consoleErrors>>

\* a mutant of OnMetadataChanged: the handler does nothing
OnMetadataChangedNever(f, c) ==
  UNCHANGED <<currentFile, statusText, statusShown, sliderContainer, dom>>

\* a mutant of OnMetadataChanged: the file filter is inverted
OnMetadataChangedInverted(f, c) ==
  IF loaded /\ f # currentFile
  THEN UpdateFontSize(activeLeaf, c, settings, sliderContainer, currentFile)
  ELSE UNCHANGED <<currentFile, statusText, statusShown, sliderContainer, dom>>

\* the handler of metadataCache "changed" for file f, the cache being c
OnMetadataChanged(f, c) ==
  IF loaded /\ f = currentFile
  THEN UpdateFontSize(activeLeaf, c, settings, sliderContainer, currentFile)
  ELSE UNCHANGED <<currentFile, statusText, statusShown, sliderContainer, dom>>

\* the front-matter of f is edited to hold v; the host re-parses the file
\* and fires "changed"
MetadataChanged(f, v) ==
  /\ loaded
  /\ tick' = ~tick
  /\ cache' = [cache EXCEPT ![f] = v]
  /\ OnMetadataChanged(f, [cache EXCEPT ![f] = v])
  /\ UNCHANGED <<loaded, settings, data, activeLeaf, headerSliders, writes,
                 consoleErrors>>

\* a mutant of ToggleSlider: the reference is not tested before a slider is
\* created
ToggleSliderAlwaysCreates ==
  LET activeView == ActiveView(activeLeaf)
  IN /\ loaded
     /\ tick' = ~tick
     /\ IF activeView = "none" \/ ViewFile(activeView) = NoFile
        THEN UNCHANGED <<sliderContainer, headerSliders>>
        ELSE LET w == NewSlider(activeView, cache[ViewFile(activeView)], settings)
             IN /\ sliderContainer' = <<w>>
                /\ headerSliders' =
                     IF w.attached
                     THEN [headerSliders EXCEPT ![activeView] = @ + 1]
                     ELSE headerSliders
     /\ UNCHANGED <<loaded, settings, data, currentFile, statusText,
                    statusShown, activeLeaf, cache, dom, writes,
                    consoleErrors>>

\* a mutant of ToggleSlider: an existing slider is removed before the active
\* view is looked at
ToggleSliderRemoveFirst ==
  LET activeView == ActiveView(activeLeaf)
  IN /\ loaded
     /\ tick' = ~tick
     /\ IF sliderContainer # <<>>
        THEN /\ headerSliders' = DetachSlider(headerSliders, sliderContainer)
             /\ sliderContainer' = <<>>
        ELSE IF activeView = "none" \/ ViewFile(activeView) = NoFile
        THEN UNCHANGED <<sliderContainer, headerSliders>>
        ELSE LET w == NewSlider(activeView, cache[ViewFile(activeView)], settings)
             IN /\ sliderContainer' = <<w>>
                /\ headerSliders' =
                     IF w.attached
                     THEN [headerSliders EXCEPT ![activeView] = @ + 1]
                     ELSE headerSliders
     /\ UNCHANGED <<loaded, settings, data, currentFile, statusText,
                    statusShown, activeLeaf, cache, dom, writes,
                 consoleErrors>>

\* the command "Toggle font size slider"
ToggleSlider ==
  LET activeView == ActiveView(activeLeaf)
  IN /\ loaded
     /\ tick' = ~tick
     /\ IF activeView = "none" \/ ViewFile(activeView) = NoFile
        THEN UNCHANGED <<sliderContainer, headerSliders>>
        ELSE IF sliderContainer # <<>>
        THEN /\ headerSliders' = DetachSlider(headerSliders, sliderContainer)
             /\ sliderContainer' = <<>>
        ELSE LET w == NewSlider(activeView, cache[ViewFile(activeView)], settings)
             IN /\ sliderContainer' = <<w>>
                /\ headerSliders' =
                     IF w.attached
                     THEN [headerSliders EXCEPT ![activeView] = @ + 1]
                     ELSE headerSliders
     /\ UNCHANGED <<loaded, settings, data, currentFile, statusText,
                    statusShown, activeLeaf, cache, dom, writes,
                 consoleErrors>>

\* the positions of the range control between its min and max, a whole
\* number of steps above min
InRange(sc, v) ==
  LET lo == ParseFloat(sc.min)
      hi == ParseFloat(sc.max)
  IN /\ IsFinite(lo) /\ IsFinite(hi)
     /\ lo.v <= v.v /\ v.v <= hi.v
     /\ (v.v - lo.v) % SliderStep = 0

\* a mutant of SliderInput: no write is issued while one to the same document
\* is in flight
SliderInputDeduplicates(v) ==
  /\ loaded
  /\ tick' = ~tick
  /\ sliderContainer # <<>>
  /\ sliderContainer[1].attached
  /\ sliderContainer[1].shown
  /\ InRange(sliderContainer[1], v)
  /\ LET newSize == ParseFloat(NumToString(v))
         file == ViewFile(sliderContainer[1].view)
     IN /\ sliderContainer' =
             <<[sliderContainer[1] EXCEPT
                  !.value = NumToString(v),
                  !.display = ToFixed2(newSize) \o RemStr]>>
        /\ writes' =
             IF \E k \in 1..Len(writes) : writes[k].file = file
             THEN writes
             ELSE Append(writes, [file |-> file, size |-> newSize])
  /\ UNCHANGED <<loaded, settings, data, currentFile, statusText, statusShown,
                 activeLeaf, cache, dom, headerSliders, consoleErrors>>

\* the "input" listener of the range control, dragged to v
SliderInput(v) ==
  /\ loaded
  /\ tick' = ~tick
  /\ sliderContainer # <<>>
  /\ sliderContainer[1].attached
  /\ sliderContainer[1].shown
  /\ InRange(sliderContainer[1], v)
  /\ LET newSize == ParseFloat(NumToString(v))
     IN /\ sliderContainer' =
             <<[sliderContainer[1] EXCEPT
                  !.value = NumToString(v),
                  !.display = ToFixed2(newSize) \o RemStr]>>
        /\ writes' = Append(writes,
             [file |-> ViewFile(sliderContainer[1].view), size |-> newSize])
  /\ UNCHANGED <<loaded, settings, data, currentFile, statusText, statusShown,
                 activeLeaf, cache, dom, headerSliders, consoleErrors>>

\* writes without its i-th element
RemoveAt(q, i) == SubSeq(q, 1, i - 1) \o SubSeq(q, i + 1, Len(q))

\* a mutant of WrittenValue: the size is written without rounding
WrittenValueUnrounded(size) == StrValue(NumToString(size) \o RemStr)

\* updateFrontmatterFontSize: what processFrontMatter stores in the field
WrittenValue(size) == StrValue(ToFixed2(size) \o RemStr)

\* the i-th write in flight completes; the host re-parses the file and
\* fires "changed"
WriteSucceed(i) ==
  /\ i \in 1..Len(writes)
  /\ tick' = ~tick
  /\ writes' = RemoveAt(writes, i)
  /\ cache' = [cache EXCEPT ![writes[i].file] = WrittenValue(writes[i].size)]
  /\ OnMetadataChanged(writes[i].file,
       [cache EXCEPT ![writes[i].file] = WrittenValue(writes[i].size)])
  /\ UNCHANGED <<loaded, settings, data, activeLeaf, headerSliders,
                 consoleErrors>>

\* a mutant of WriteFail: the failure puts the displayed value back to the
\* default size
WriteFailRevertsDisplay(i) ==
  /\ i \in 1..Len(writes)
  /\ tick' = ~tick
  /\ writes' = RemoveAt(writes, i)
  /\ consoleErrors' = TRUE
  /\ sliderContainer' =
       IF sliderContainer = <<>> THEN sliderContainer
       ELSE <<[sliderContainer[1] EXCEPT
                 !.display = ToFixed2(settings.defaultFontSize) \o RemStr]>>
  /\ UNCHANGED <<loaded, settings, data, currentFile, statusText, statusShown,
                 activeLeaf, cache, dom, headerSliders>>

\* the i-th write in flight is rejected; the catch handler logs the error
WriteFail(i) ==
  /\ i \in 1..Len(writes)
  /\ tick' = ~tick
  /\ writes' = RemoveAt(writes, i)
  /\ consoleErrors' = TRUE
  /\ UNCHANGED <<loaded, settings, data, currentFile, statusText, statusShown,
                 sliderContainer, activeLeaf, cache, dom, headerSliders>>

\* saveSettings()
SaveSettings(st) == st

\* a mutant of SetField: zero is accepted
SetFieldNonNegative(field, text) ==
  /\ loaded
  /\ tick' = ~tick
  /\ LET numValue == ParseFloat(text)
     IN IF ~IsNaN(numValue) /\ NumLe(Fin(0), numValue)
        THEN /\ settings' = [settings EXCEPT ![field] = numValue]
             /\ data' = SaveSettings([settings EXCEPT ![field] = numValue])
        ELSE UNCHANGED <<settings, data>>
  /\ UNCHANGED <<loaded, currentFile, statusText, statusShown, sliderContainer,
                 activeLeaf, cache, dom, headerSliders, writes,
                 consoleErrors>>

\* onChange of the settings panel's text field for `field`
SetField(field, text) ==
  /\ loaded
  /\ tick' = ~tick
  /\ LET numValue == ParseFloat(text)
     IN IF ~IsNaN(numValue) /\ NumLt(Fin(0), numValue)
        THEN /\ settings' = [settings EXCEPT ![field] = numValue]
             /\ data' = SaveSettings([settings EXCEPT ![field] = numValue])
        ELSE UNCHANGED <<settings, data>>
  /\ UNCHANGED <<loaded, currentFile, statusText, statusShown, sliderContainer,
                 activeLeaf, cache, dom, headerSliders, writes,
                 consoleErrors>>

\* ------------------------------------------------------------ specification
\* a disabled plugin in a workspace with any leaf active
InitWith(dataSet, cacheSet) ==
  /\ loaded = FALSE
  /\ data \in dataSet
  /\ settings = DEFAULT_SETTINGS
  /\ currentFile = NoFile
  /\ statusText = <<>>
  /\ statusShown = FALSE
  /\ sliderContainer = <<>>
  /\ activeLeaf \in Leaves
  /\ cache \in cacheSet
  /\ dom = [l \in Leaves |-> [e \in ViewElements(l) |-> Unstyled]]
  /\ headerSliders = [l \in Leaves |-> 0]
  /\ writes = <<>>
  /\ consoleErrors = FALSE
  /\ tick = FALSE

\* the caches whose every field is one of the file's samples
CacheSamples ==
  {c \in [Files -> UNION {FmSamples(f) : f \in Files}] :
     \A f \in Files : c[f] \in FmSamples(f)}

Init == InitWith(DataSamples, CacheSamples)

Next ==
  \/ OnLoad
  \/ OnUnload
  \/ ToggleSlider
  \/ \E l \in Leaves : ActiveLeafChange(l)
  \/ \E f \in Files : \E v \in FmSamples(f) : MetadataChanged(f, v)
  \/ \E v \in SliderInputs : Len(writes) < MaxPending /\ SliderInput(v)
  \/ \E i \in 1..MaxPending : WriteSucceed(i)
  \/ \E i \in 1..MaxPending : WriteFail(i)
  \/ \E field \in Fields : \E text \in SettingTexts : SetField(field, text)

Spec == Init /\ [][Next]_vars

\* ------------------------------------------------------------ every kind of input
\* the font-size fields of a.md the resolver is run on
InputFields ==
  {NoFrontmatter, NoKey, OtherValue}
  \cup {StrValue(s) : s \in
       {<<"1", ".", "5", "r", "e", "m">>,
        <<" ", "1", ".", "5", "r", "e", "m", " ">>,
        <<"1", ".", "5">>,
        <<"2", ".", "2", "5", " ", "r", "e", "m">>,
        <<"1", ".", "2", "3", "4", "r", "e", "m">>,
        <<".", "7", "5">>,
        <<"1", ".", "5", "e", "m">>,
        <<"0", ".", "2", "r", "e", "m">>,
        <<"5">>,
        <<"-", "1", "r", "e", "m">>,
        <<"0">>,
        <<"a", "b", "c">>,
        <<"r", "e", "m">>,
        <<>>,
        <<"N", "a", "N">>,
        <<"I", "n", "f", "i", "n", "i", "t", "y">>,
        <<"-", "I", "n", "f", "i", "n", "i", "t", "y", "r", "e", "m">>,
        <<"1", "e", "9", "9", "9">>}}
  \cup {NumValue(n) : n \in
       {Fin((3 * Unit) \div 2), Fin(5 * Unit), Fin(Unit \div 5), Fin(0),
        Fin(0 - Unit), Fin(Unit \div 2), Fin(3 * Unit), Fin(2 * Unit),
        NaN, PosInf, NegInf}}

\* the records the host's data file may hold when the plugin is enabled
InputData ==
  {<<>>,
   [defaultFontSize |-> Fin((5 * Unit) \div 4)],
   [minFontSize |-> Fin(Unit), maxFontSize |-> Fin(2 * Unit)],
   [minFontSize |-> Fin(2 * Unit), maxFontSize |-> Fin(Unit),
    defaultFontSize |-> Fin(4 * Unit)]}

InitInputs ==
  InitWith(InputData,
    {[f \in Files |-> IF f = "a.md" THEN v ELSE StrValue(<<"2", "r", "e", "m">>)] :
       v \in InputFields})

NextInputs ==
  \/ OnLoad
  \/ OnUnload
  \/ ToggleSlider
  \/ \E l \in Leaves : ActiveLeafChange(l)
  \/ \E f \in Files : MetadataChanged(f, cache[f])

SpecInputs == InitInputs /\ [][NextInputs]_vars

\* ------------------------------------------------------------ racing writes
\* the positions the slider is dragged to while writes are racing
SliderPositions == {Fin((383 * Unit) \div 1000), Fin((1033 * Unit) \div 1000)}

\* the records the host's data file may hold when the slider is used
SliderData == {[minFontSize |-> Fin((333 * Unit) \div 1000)]}

\* the text typed into the maximum field while the slider exists
LoweredMaxText == <<"0", ".", "4">>

\* the leaves the user moves between while the slider is used
SliderLeaves == {"L1", "L4"}

InitSlider ==
  InitWith(SliderData,
    {[f \in Files |-> IF f = "a.md" THEN StrValue(<<"1", ".", "5", "r", "e", "m">>)
                      ELSE StrValue(<<"2", "r", "e", "m">>)]})

NextSlider ==
  \/ OnLoad
  \/ ToggleSlider
  \/ \E l \in SliderLeaves : ActiveLeafChange(l)
  \/ \E v \in SliderPositions : Len(writes) < MaxRacing /\ SliderInput(v)
  \/ \E i \in 1..MaxRacing : WriteSucceed(i)
  \/ \E i \in 1..MaxRacing : WriteFail(i)
  \/ SetField("maxFontSize", LoweredMaxText)

SpecSlider == InitSlider /\ [][NextSlider]_vars

\* ------------------------------------------------------------ settings panel
\* the texts typed into the fields of the settings panel
PanelTexts ==
  {<<"a", "b", "c">>, <<>>, <<"-", "2">>, <<"0">>,
   <<"0", ".", "4">>, <<"2", "r", "e", "m">>}

\* the font-size fields of a.md while the settings are edited
PanelFields ==
  {NoKey, StrValue(<<"1", ".", "5", "r", "e", "m">>), StrValue(<<"a", "b", "c">>)}
  \cup {NumValue(n) : n \in
       {Fin(Unit \div 5), Fin((45 * Unit) \div 100), Fin((3 * Unit) \div 2),
        Fin(5 * Unit), NaN, PosInf, NegInf}}

InitPanel ==
  InitWith(DataSamples,
    {[f \in Files |-> IF f = "a.md" THEN v ELSE StrValue(<<"2", "r", "e", "m">>)] :
       v \in PanelFields})

NextPanel ==
  \/ OnLoad
  \/ OnUnload
  \/ \E l \in Leaves : ActiveLeafChange(l)
  \/ \E f \in Files : MetadataChanged(f, cache[f])
  \/ \E field \in Fields : \E text \in PanelTexts : SetField(field, text)

SpecPanel == InitPanel /\ [][NextPanel]_vars

\* ------------------------------------------------------------ observations
\* the state as one record; the predicates below read a state through it
State ==
  [loaded |-> loaded, settings |-> settings, data |-> data,
   currentFile |-> currentFile, statusText |-> statusText,
   statusShown |-> statusShown, sliderContainer |-> sliderContainer,
   activeLeaf |-> activeLeaf, cache |-> cache, dom |-> dom,
   headerSliders |-> headerSliders, writes |-> writes,
   consoleErrors |-> consoleErrors]

\* the document of the active Markdown view, NoFile when there is none
ActiveDoc(s) ==
  IF ActiveView(s.activeLeaf) = "none" THEN NoFile
  ELSE ViewFile(ActiveView(s.activeLeaf))

\* the parse of the active document's font-size field
ActiveParse(s) ==
  IF ActiveDoc(s) = NoFile THEN <<>> ELSE ParseFontSize(s.cache[ActiveDoc(s)])

\* every element of view l carries the inline font size txt and the marker
ViewStyled(s, l, txt) ==
  \A e \in ViewElements(l) : s.dom[l][e] = [fontSize |-> txt, active |-> TRUE]

\* no element of view l carries an inline font size or the marker
ViewUnstyled(s, l) == \A e \in ViewElements(l) : s.dom[l][e] = Unstyled

\* the number in an inline font size "<n>rem"
StyleSize(txt) == ParseFloat(ReplaceRem(txt))

FontPrefix == <<"F", "o", "n", "t", ":", " ">>

\* the number in the status indicator's text "Font: <n>rem"
StatusSize(s) == ParseFloat(ReplaceRem(Drop(s.statusText, Len(FontPrefix))))

WithinBounds(s, x) ==
  NumLe(s.settings.minFontSize, x) /\ NumLe(x, s.settings.maxFontSize)

\* a step in which updateFontSize runs: activation, an active-view change,
\* or a metadata change of the recorded current document
RecomputeStep ==
  \/ OnLoad
  \/ \E l \in Leaves : ActiveLeafChange(l)
  \/ \E f \in Files : f = currentFile /\ MetadataChanged(f, cache'[f])
  \/ \E i \in 1..Len(writes) :
       loaded /\ writes[i].file = currentFile /\ WriteSucceed(i)

\* ------------------------------------------------------------ C1
C1_Original(s) ==
  s.loaded =>
    /\ \A l \in Leaves : \A e \in ViewElements(l) :
         s.dom[l][e].fontSize # <<>> =>
           WithinBounds(s, StyleSize(s.dom[l][e].fontSize))
    /\ s.statusShown => WithinBounds(s, StatusSize(s))

\* C1 as stated: in every reachable state every inline font size on a view
\* and the size in the visible status indicator lie between the configured
\* minFontSize and maxFontSize.
C1_AlwaysWithinBounds == C1_Original(State)

\* after a recompute that found a valid size under minFontSize <= maxFontSize
C1_RecomputePost(s) ==
  (/\ IsValidSize(ActiveParse(s))
   /\ NumLe(s.settings.minFontSize, s.settings.maxFontSize)) =>
    \E x \in {StyleSize(s.dom[s.activeLeaf][e].fontSize) :
                e \in ViewElements(s.activeLeaf)} :
      /\ WithinBounds(s, x)
      /\ ViewStyled(s, s.activeLeaf, NumToString(x) \o RemStr)
      /\ s.statusShown
      /\ s.statusText = FontPrefix \o ToFixed2(x) \o RemStr

\* C1 amended: right after a recompute that finds a valid size while
\* minFontSize <= maxFontSize, the inline font size of the active view lies
\* between the configured minFontSize and maxFontSize and the status
\* indicator shows that size rounded to two decimals.
C1_WithinBoundsAfterRecompute ==
  [][RecomputeStep => \E t \in {State'} : C1_RecomputePost(t)]_vars

\* a size above maxFontSize was clamped onto the active view
C1_Witness ==
  /\ loaded
  /\ activeLeaf = "L1"
  /\ settings.maxFontSize = Fin(Unit)
  /\ cache["a.md"] = StrValue(<<"1", ".", "5", "r", "e", "m">>)
  /\ ViewStyled(State, "L1", <<"1", "r", "e", "m">>)
  /\ statusShown
  /\ statusText = FontPrefix \o <<"1", ".", "0", "0", "r", "e", "m">>

\* ------------------------------------------------------------ C2
\* the nearest point of [minFontSize, maxFontSize] to x
NearestInBounds(st, x) ==
  IF NumLt(x, st.minFontSize) THEN st.minFontSize
  ELSE IF NumLt(st.maxFontSize, x) THEN st.maxFontSize
  ELSE x

\* C2: with minFontSize <= maxFontSize, a finite font-size value x of the
\* active document, given as a number or as a parsable string, is resolved
\* to minFontSize when x < minFontSize, to maxFontSize when x > maxFontSize
\* and to x otherwise, so the size put on the view and shown in the status
\* indicator is inside [minFontSize, maxFontSize].
C2_ClampToNearestBound ==
  (/\ loaded
   /\ ActiveParse(State) # <<>>
   /\ IsFinite(ActiveParse(State)[1])
   /\ NumLe(settings.minFontSize, settings.maxFontSize)) =>
    LET r == NearestInBounds(settings, ActiveParse(State)[1])
    IN /\ ViewStyled(State, activeLeaf, NumToString(r) \o RemStr)
       /\ statusShown
       /\ statusText = FontPrefix \o ToFixed2(r) \o RemStr
       /\ \A e \in ViewElements(activeLeaf) :
            WithinBounds(State, StyleSize(dom[activeLeaf][e].fontSize))

\* a string below minFontSize was resolved to minFontSize
C2_Witness ==
  /\ loaded
  /\ activeLeaf = "L1"
  /\ settings.minFontSize = Fin(Unit)
  /\ settings.maxFontSize = Fin(2 * Unit)
  /\ cache["a.md"] = StrValue(<<"0", ".", "2", "r", "e", "m">>)
  /\ ViewStyled(State, "L1", <<"1", "r", "e", "m">>)
  /\ statusText = FontPrefix \o <<"1", ".", "0", "0", "r", "e", "m">>

\* ------------------------------------------------------------ C3
\* after a recompute that found a valid size
C3_Post(s) ==
  IsValidSize(ActiveParse(s)) =>
    LET size == Clamp(s.settings, ActiveParse(s)[1])
    IN /\ ViewStyled(s, s.activeLeaf, NumToString(size) \o RemStr)
       /\ s.statusShown
       /\ s.statusText = FontPrefix \o ToFixed2(size) \o RemStr
       /\ s.sliderContainer # <<>> =>
            /\ s.sliderContainer[1].value = NumToString(size)
            /\ s.sliderContainer[1].shown

\* C3: whenever a recompute (at activation, on an active-view change, on a
\* metadata change of the current document) finds a valid font size, then
\* afterwards the active view carries the clamped size as inline style, the
\* status indicator is visible with the text "Font: <size, two decimals>rem"
\* and, if the slider widget exists, its control value is that size and the
\* slider is visible.
C3_ValidSizeApplied ==
  [][RecomputeStep => \E t \in {State'} : C3_Post(t)]_vars

\* a recompute has moved the control of a slider that was created while the
\* document had no font size
C3_Witness ==
  /\ loaded
  /\ activeLeaf = "L1"
  /\ cache["a.md"] = StrValue(<<"1", ".", "5", "r", "e", "m">>)
  /\ ViewStyled(State, "L1", <<"1", ".", "5", "r", "e", "m">>)
  /\ statusShown
  /\ statusText = FontPrefix \o <<"1", ".", "5", "0", "r", "e", "m">>
  /\ sliderContainer # <<>>
  /\ sliderContainer[1].display = <<"1", ".", "0", "0", "r", "e", "m">>
  /\ sliderContainer[1].value = <<"1", ".", "5">>
  /\ sliderContainer[1].shown

\* ------------------------------------------------------------ C4
\* the field is missing, of another type than string or number, or a string
\* that does not parse to a number
FieldUnusable(fm) ==
  \/ fm.t \in {"nofm", "nokey", "other"}
  \/ fm.t = "string" /\ IsNaN(ParseFloat(Trim(ReplaceRem(fm.s))))

\* the slider widget, if there is one, is only hidden between s and t
SliderOnlyHidden(s, t) ==
  /\ t.headerSliders = s.headerSliders
  /\ IF s.sliderContainer = <<>> THEN t.sliderContainer = <<>>
     ELSE t.sliderContainer = <<[s.sliderContainer[1] EXCEPT !.shown = FALSE]>>

C4_Frame(s, t) ==
  (ActiveDoc(t) # NoFile /\ FieldUnusable(t.cache[ActiveDoc(t)])) =>
    /\ ViewUnstyled(t, t.activeLeaf)
    /\ ~t.statusShown
    /\ SliderOnlyHidden(s, t)
    /\ \A l \in Leaves \ {t.activeLeaf} : t.dom[l] = s.dom[l]

\* C4: whenever a recompute finds the active document's font-size field
\* missing, of a type other than string or number, or an unparsable string,
\* then afterwards the active view carries no plugin styling, the status
\* indicator is hidden, the slider (if it exists) is hidden but still
\* exists, and the styling of every other open view is unchanged.
C4_UnusableFieldRemovesStyling ==
  [][RecomputeStep => \E s \in {State} : \E t \in {State'} : C4_Frame(s, t)]_vars

\* the active document has no field, its view is bare and the slider hidden,
\* while the other view keeps its styling
C4_Witness ==
  /\ loaded
  /\ activeLeaf = "L1"
  /\ cache["a.md"] = NoKey
  /\ ViewUnstyled(State, "L1")
  /\ ViewStyled(State, "L2", <<"2", "r", "e", "m">>)
  /\ ~statusShown
  /\ statusText # <<>>
  /\ sliderContainer # <<>>
  /\ ~sliderContainer[1].shown
  /\ headerSliders[sliderContainer[1].view] = 1

\* ------------------------------------------------------------ C5
\* C5 as stated: a font-size value that resolves to a non-finite number
\* (an infinity or not-a-number) is treated as absent: no styling is applied
\* for it and the status indicator is hidden.
C5_NonFiniteTreatedAsAbsent ==
  (/\ loaded
   /\ ActiveParse(State) # <<>>
   /\ ~IsFinite(ActiveParse(State)[1])) =>
    ViewUnstyled(State, activeLeaf) /\ ~statusShown

\* C5 amended: a font-size value that resolves to not-a-number is treated as
\* absent (no styling, status indicator hidden); an infinity is not: it is
\* clamped like any number, +Infinity to the larger of minFontSize and
\* maxFontSize and -Infinity to minFontSize, the size is applied and the
\* status indicator shown.
C5_NaNAbsentInfinityClamped ==
  (loaded /\ ActiveParse(State) # <<>>) =>
    LET x == ActiveParse(State)[1]
        top == IF NumLt(settings.maxFontSize, settings.minFontSize)
               THEN settings.minFontSize ELSE settings.maxFontSize
    IN /\ IsNaN(x) => ViewUnstyled(State, activeLeaf) /\ ~statusShown
       /\ x = PosInf =>
            /\ ViewStyled(State, activeLeaf, NumToString(top) \o RemStr)
            /\ statusShown
            /\ statusText = FontPrefix \o ToFixed2(top) \o RemStr
       /\ x = NegInf =>
            /\ ViewStyled(State, activeLeaf,
                 NumToString(settings.minFontSize) \o RemStr)
            /\ statusShown
            /\ statusText = FontPrefix \o ToFixed2(settings.minFontSize) \o RemStr

\* the string "Infinity" was resolved to maxFontSize and applied
C5_Witness ==
  /\ loaded
  /\ activeLeaf = "L1"
  /\ cache["a.md"] = StrValue(InfinityStr)
  /\ settings.maxFontSize = Fin(3 * Unit)
  /\ ViewStyled(State, "L1", <<"3", "r", "e", "m">>)
  /\ statusShown

\* ------------------------------------------------------------ C6
C6_Post(s, t) ==
  ActiveDoc(t) = NoFile =>
    /\ \A l \in Leaves : ViewUnstyled(t, l)
    /\ ~t.statusShown
    /\ SliderOnlyHidden(s, t)

\* C6: when an active-view-change event is handled and there is no active
\* document, then afterwards no open view, active or not, carries plugin
\* styling, the status indicator is hidden, and the slider, if it exists, is
\* hidden and not destroyed.
C6_NoActiveDocumentClearsAll ==
  [][(\E l \in Leaves : ActiveLeafChange(l)) =>
       \E s \in {State} : \E t \in {State'} : C6_Post(s, t)]_vars

\* the active leaf is not a Markdown view, the document shown before is still
\* recorded, and the slider is hidden in its header
C6_Witness ==
  /\ loaded
  /\ activeLeaf = "L4"
  /\ currentFile = "a.md"
  /\ \A l \in Leaves : ViewUnstyled(State, l)
  /\ ~statusShown
  /\ statusText # <<>>
  /\ sliderContainer # <<>>
  /\ ~sliderContainer[1].shown
  /\ headerSliders["L1"] = 1

\* ------------------------------------------------------------ C7
\* a metadata-change event for file f is delivered in this step
MetadataEvent(f) ==
  \/ MetadataChanged(f, cache'[f])
  \/ \E i \in 1..Len(writes) : writes[i].file = f /\ WriteSucceed(i)

\* what a recompute leaves behind for the active document
C7_Recomputed(t) ==
  /\ t.currentFile = ActiveDoc(t)
  /\ IF IsValidSize(ActiveParse(t))
     THEN LET size == Clamp(t.settings, ActiveParse(t)[1])
          IN /\ ViewStyled(t, t.activeLeaf, NumToString(size) \o RemStr)
             /\ t.statusShown
             /\ t.statusText = FontPrefix \o ToFixed2(size) \o RemStr
     ELSE ViewUnstyled(t, t.activeLeaf) /\ ~t.statusShown

C7_Event(f, s, t) ==
  IF f = ActiveDoc(s)
  THEN C7_Recomputed(t)
  ELSE /\ t.dom = s.dom
       /\ t.statusText = s.statusText
       /\ t.statusShown = s.statusShown
       /\ t.sliderContainer = s.sliderContainer
       /\ t.headerSliders = s.headerSliders
       /\ t.currentFile = s.currentFile

\* C7: while the plugin is active, a metadata-change event for a document
\* that is not the active document leaves the styling of every view, the
\* status indicator, the slider and the recorded current document unchanged;
\* one for the active document always triggers a recompute.
C7_MetadataEventFilter ==
  [][\A f \in Files : (loaded /\ MetadataEvent(f)) =>
       \E s \in {State} : \E t \in {State'} : C7_Event(f, s, t)]_vars

\* b.md lost its font size while a.md was active: its view keeps the size
C7_Witness ==
  /\ loaded
  /\ activeLeaf = "L1"
  /\ currentFile = "a.md"
  /\ cache["b.md"] = StrValue(<<"a", "b", "c">>)
  /\ ViewStyled(State, "L2", <<"2", "r", "e", "m">>)

\* ------------------------------------------------------------ C8
\* C8: after plugin deactivation no open view carries the plugin's inline
\* font size or marker class, whichever view is active, and no slider widget
\* is in the document.
C8_UnloadCleansUp ==
  ~loaded =>
    /\ \A l \in Leaves : ViewUnstyled(State, l)
    /\ \A l \in Leaves : headerSliders[l] = 0

\* the plugin was deactivated while a write issued by its slider was in flight
C8_Witness ==
  /\ ~loaded
  /\ writes # <<>>
  /\ activeLeaf = "L2"
  /\ \A l \in Leaves : ViewUnstyled(State, l)

\* ------------------------------------------------------------ C9
\* nothing but the slider reference and the view headers differs
OnlySliderDiffers(s, t) ==
  /\ t.loaded = s.loaded
  /\ t.settings = s.settings
  /\ t.data = s.data
  /\ t.currentFile = s.currentFile
  /\ t.statusText = s.statusText
  /\ t.statusShown = s.statusShown
  /\ t.activeLeaf = s.activeLeaf
  /\ t.cache = s.cache
  /\ t.dom = s.dom
  /\ t.writes = s.writes

\* the slider of s is gone from the document and the reference is cleared
SliderRemoved(s, t) ==
  /\ t.sliderContainer = <<>>
  /\ \A l \in Leaves : t.headerSliders[l] = 0
  /\ OnlySliderDiffers(s, t)

\* a slider was created in the header of the active view
SliderCreated(s, t) ==
  /\ t.sliderContainer # <<>>
  /\ t.sliderContainer[1].view = s.activeLeaf
  /\ t.headerSliders = [s.headerSliders EXCEPT ![s.activeLeaf] = 1]
  /\ OnlySliderDiffers(s, t)

C9_AsStated(s, t) ==
  IF s.sliderContainer # <<>> THEN SliderRemoved(s, t)
  ELSE IF ActiveDoc(s) # NoFile THEN SliderCreated(s, t)
  ELSE t = s

\* C9 as stated: whenever the slider is present the toggle removes its DOM
\* subtree, clears the reference and changes nothing else; whenever it is
\* absent the toggle creates it exactly when there is an active document and
\* otherwise changes nothing.
C9_ToggleRemovesWheneverPresent ==
  [][ToggleSlider => \E s \in {State} : \E t \in {State'} : C9_AsStated(s, t)]_vars

C9_Amended(s, t) ==
  IF ActiveDoc(s) = NoFile THEN t = s
  ELSE IF s.sliderContainer # <<>> THEN SliderRemoved(s, t)
  ELSE SliderCreated(s, t)

\* C9 amended: with an active document the toggle removes the slider when it
\* is present (its DOM subtree is removed, the reference cleared, nothing
\* else changes) and creates it when it is absent; with no active document
\* the toggle changes nothing, whether the slider is present or absent.
C9_ToggleNeedsActiveDocument ==
  [][ToggleSlider => \E s \in {State} : \E t \in {State'} : C9_Amended(s, t)]_vars

\* the slider is present and hidden while no document is active: the state
\* in which the toggle does nothing
C9_Witness ==
  /\ loaded
  /\ activeLeaf = "L3"
  /\ currentFile = NoFile
  /\ sliderContainer # <<>>
  /\ sliderContainer[1].view = "L2"
  /\ headerSliders["L2"] = 1

\* ------------------------------------------------------------ C10
\* C10: when the toggle creates the slider, the value it displays is the
\* value the font-size resolver yields for the active document (parsed and
\* clamped), and defaultFontSize when the field is absent or unparsable; the
\* control's bounds are the configured minFontSize and maxFontSize.
C10_SliderStartsAtResolvedSize ==
  sliderContainer # <<>> =>
    LET p == ParseFontSize(cache[ViewFile(sliderContainer[1].view)])
        expected == IF IsValidSize(p) THEN Clamp(settings, p[1])
                    ELSE settings.defaultFontSize
    IN /\ sliderContainer[1].display = ToFixed2(expected) \o RemStr
       /\ sliderContainer[1].min = NumToString(settings.minFontSize)
       /\ sliderContainer[1].max = NumToString(settings.maxFontSize)

\* ------------------------------------------------------------ C11
\* the slider input v: the text shows v at once and one write of v to the
\* slider's document joins the writes in flight
C11_InputPost(v, s, t) ==
  /\ t.sliderContainer[1].display = ToFixed2(v) \o RemStr
  /\ t.writes = Append(s.writes,
       [file |-> ViewFile(s.sliderContainer[1].view), size |-> v])
  /\ t.cache = s.cache
  /\ t.dom = s.dom
  /\ t.statusText = s.statusText
  /\ t.statusShown = s.statusShown

\* the failure of the i-th write: nothing but the log and the write changes
C11_FailPost(i, s, t) ==
  /\ t.sliderContainer = s.sliderContainer
  /\ t.headerSliders = s.headerSliders
  /\ t.cache = s.cache
  /\ t.dom = s.dom
  /\ t.statusText = s.statusText
  /\ t.statusShown = s.statusShown
  /\ t.settings = s.settings
  /\ t.data = s.data
  /\ t.currentFile = s.currentFile
  /\ t.writes = RemoveAt(s.writes, i)
  /\ t.consoleErrors

\* C11: on every slider input the displayed text changes to the new value at
\* once and one front-matter write with that value is issued; when a write
\* fails the displayed value keeps the new value, the document's
\* front-matter, the view styling and the status indicator are unchanged, and
\* the only effect is a log entry.
C11_InputWritesFailureOnlyLogs ==
  [][/\ \A v \in SliderPositions :
          SliderInput(v) =>
            \E s \in {State} : \E t \in {State'} : C11_InputPost(v, s, t)
     /\ \A i \in 1..MaxRacing :
          WriteFail(i) =>
            \E s \in {State} : \E t \in {State'} : C11_FailPost(i, s, t)]_vars

\* the write of 0.38rem to a.md failed: the text still shows it, the document
\* and the status keep the old size
C11_Witness ==
  /\ consoleErrors
  /\ writes = <<>>
  /\ sliderContainer # <<>>
  /\ sliderContainer[1].view = "L1"
  /\ sliderContainer[1].display = <<"0", ".", "3", "8", "r", "e", "m">>
  /\ cache["a.md"] = StrValue(<<"1", ".", "5", "r", "e", "m">>)
  /\ statusShown
  /\ statusText = FontPrefix \o <<"1", ".", "5", "0", "r", "e", "m">>

\* ------------------------------------------------------------ C12
\* one hundredth, the tolerance of the round trip
Hundredth == Unit \div 100

\* finite numbers x and y are at most one hundredth apart
Close(x, y) == IsFinite(x) /\ IsFinite(y) /\ Abs(x.v - y.v) <= Hundredth

\* what updateFontSize resolves the field fm to under settings st
Resolve(st, fm) ==
  IF IsValidSize(ParseFontSize(fm)) THEN <<Clamp(st, ParseFontSize(fm)[1])>>
  ELSE <<>>

C12_AsStated(i, s, t) ==
  LET V == s.writes[i].size
      fm == t.cache[s.writes[i].file]
  IN /\ fm = StrValue(ToFixed2(V) \o RemStr)
     /\ Resolve(t.settings, fm) # <<>>
     /\ Close(Resolve(t.settings, fm)[1], V)

\* C12 as stated: after a slider write of V succeeds the font-size field is
\* V with two decimals followed by "rem", and the resolver run on that string
\* under the current settings yields V to within 0.01.
C12_RoundTripWithinHundredth ==
  [][\A i \in 1..MaxRacing :
       WriteSucceed(i) =>
         \E s \in {State} : \E t \in {State'} : C12_AsStated(i, s, t)]_vars

C12_Amended(i, s, t) ==
  LET V == s.writes[i].size
      fm == t.cache[s.writes[i].file]
      p == ParseFontSize(fm)
  IN /\ fm = StrValue(ToFixed2(V) \o RemStr)
     /\ IsValidSize(p)
     /\ Close(p[1], V)
     /\ Resolve(t.settings, fm) = <<Clamp(t.settings, p[1])>>
     /\ WithinBounds(t, V) => Close(Resolve(t.settings, fm)[1], V)

\* C12 amended: after a slider write of V succeeds the font-size field is V
\* with two decimals followed by "rem"; that string parses to within 0.01 of
\* V, and the resolver yields the parsed number clamped to the current
\* minFontSize and maxFontSize, which is within 0.01 of V whenever V lies
\* between the current bounds.
C12_RoundTripUpToClamp ==
  [][\A i \in 1..MaxRacing :
       WriteSucceed(i) =>
         \E s \in {State} : \E t \in {State'} : C12_Amended(i, s, t)]_vars

\* 0.383 was written to a.md as "0.38rem" and resolved to 0.38
C12_Witness ==
  /\ loaded
  /\ activeLeaf = "L1"
  /\ writes = <<>>
  /\ settings.maxFontSize = Fin(3 * Unit)
  /\ cache["a.md"] = StrValue(<<"0", ".", "3", "8", "r", "e", "m">>)
  /\ sliderContainer # <<>>
  /\ sliderContainer[1].display = <<"0", ".", "3", "8", "r", "e", "m">>
  /\ statusText = FontPrefix \o <<"0", ".", "3", "8", "r", "e", "m">>

\* ------------------------------------------------------------ C13
\* the status indicator and the active view show the size written by the
\* i-th write, clamped to the bounds of the moment
C13_Synced(i, s, t) ==
  LET shown == Resolve(t.settings, WrittenValue(s.writes[i].size))
  IN /\ shown # <<>>
     /\ t.statusShown
     /\ t.statusText = FontPrefix \o ToFixed2(shown[1]) \o RemStr
     /\ ViewStyled(t, t.activeLeaf, NumToString(shown[1]) \o RemStr)

\* C13: when a slider write to the active document succeeds and the host
\* delivers its metadata-change event, the status indicator text and the
\* active view's inline font size show the written value, clamped to the
\* current bounds; the slider input itself never changes the status
\* indicator.  (The host delivers the event in the step that completes the
\* write, so "eventually" is the state after that step.)
C13_WriteReachesStatusAndView ==
  [][/\ \A v \in SliderPositions :
          SliderInput(v) =>
            \E s \in {State} : \E t \in {State'} :
              t.statusText = s.statusText /\ t.statusShown = s.statusShown
     /\ \A i \in 1..MaxRacing :
          (loaded /\ WriteSucceed(i)) =>
            \E s \in {State} : \E t \in {State'} :
              s.writes[i].file = ActiveDoc(s) => C13_Synced(i, s, t)]_vars

\* 1.033 was written to the active b.md after the maximum became 0.4: the
\* status and the view show 0.4
C13_Witness ==
  /\ loaded
  /\ activeLeaf = "L2"
  /\ writes = <<>>
  /\ settings.maxFontSize = Fin((4 * Unit) \div 10)
  /\ cache["b.md"] = StrValue(<<"1", ".", "0", "3", "r", "e", "m">>)
  /\ statusShown
  /\ statusText = FontPrefix \o <<"0", ".", "4", "0", "r", "e", "m">>
  /\ ViewStyled(State, "L2", <<"0", ".", "4", "r", "e", "m">>)

\* ------------------------------------------------------------ C14
\* the input v issues its write at once, behind whatever is in flight
C14_Issued(v, s, t) ==
  t.writes = Append(s.writes,
    [file |-> ViewFile(s.sliderContainer[1].view), size |-> v])

\* the i-th write, whichever it is, sets the persisted field to its value
\* and leaves the other writes in flight
C14_Completed(i, s, t) ==
  /\ t.cache = [s.cache EXCEPT
       ![s.writes[i].file] = StrValue(ToFixed2(s.writes[i].size) \o RemStr)]
  /\ t.writes = RemoveAt(s.writes, i)

\* C14: slider inputs on one document issue their writes without waiting
\* for, or merging with, the writes already in flight; the host may complete
\* them in any order, and each write that completes sets the persisted
\* font-size to its own value, so once all have completed the persisted
\* value is that of the write that completed last (a write that fails
\* persists nothing).
C14_LastCompletedWriteWins ==
  [][/\ \A v \in SliderPositions :
          SliderInput(v) =>
            \E s \in {State} : \E t \in {State'} : C14_Issued(v, s, t)
     /\ \A i \in 1..MaxRacing :
          WriteSucceed(i) =>
            \E s \in {State} : \E t \in {State'} : C14_Completed(i, s, t)
     /\ \A i \in 1..MaxRacing :
          WriteFail(i) =>
            \E s \in {State} : \E t \in {State'} :
              t.cache = s.cache /\ t.writes = RemoveAt(s.writes, i)]_vars

\* the slider was dragged to 0.383 and then to 1.033; both writes were in
\* flight, the second completed first, and the document holds 0.38rem
C14_Witness ==
  /\ loaded
  /\ ~consoleErrors
  /\ writes = <<>>
  /\ activeLeaf = "L4"
  /\ sliderContainer # <<>>
  /\ sliderContainer[1].view = "L1"
  /\ sliderContainer[1].value = <<"1", ".", "0", "3", "3">>
  /\ sliderContainer[1].display = <<"1", ".", "0", "3", "r", "e", "m">>
  /\ cache["a.md"] = StrValue(<<"0", ".", "3", "8", "r", "e", "m">>)

\* ------------------------------------------------------------ C15
\* the text is a number greater than zero
IsPositiveText(text) ==
  LET n == ParseFloat(text)
  IN n.k = "pinf" \/ (n.k = "fin" /\ n.v > 0)

C15_Post(field, text, s, t) ==
  IF IsPositiveText(text)
  THEN /\ t.settings[field] = ParseFloat(text)
       /\ \A g \in Fields \ {field} : t.settings[g] = s.settings[g]
       /\ t.data = t.settings
  ELSE t.settings = s.settings /\ t.data = s.data

\* C15: an edit of a settings field whose text does not parse to a number or
\* whose value is not strictly positive leaves the settings in memory and
\* the persisted record unchanged; an edit with a strictly positive value
\* sets that one field, leaves the other two unchanged and persists the
\* whole settings object, whether or not minFontSize <= maxFontSize results.
C15_SettingsEditValidated ==
  [][\A field \in Fields : \A text \in PanelTexts :
       SetField(field, text) =>
         \E s \in {State} : \E t \in {State'} : C15_Post(field, text, s, t)]_vars

\* the maximum was edited to 0.4, below the minimum, and persisted
C15_Witness ==
  /\ loaded
  /\ settings = [minFontSize |-> Fin(Unit \div 2),
                 maxFontSize |-> Fin((4 * Unit) \div 10),
                 defaultFontSize |-> Fin(Unit)]
  /\ data = settings

\* ------------------------------------------------------------ C17
\* after a recompute under minFontSize > maxFontSize the active view and the
\* status show minFontSize, whatever number the field holds
C17_Post(t) ==
  (/\ NumLt(t.settings.maxFontSize, t.settings.minFontSize)
   /\ IsValidSize(ActiveParse(t))) =>
    /\ ViewStyled(t, t.activeLeaf, NumToString(t.settings.minFontSize) \o RemStr)
    /\ t.statusShown
    /\ t.statusText = FontPrefix \o ToFixed2(t.settings.minFontSize) \o RemStr

\* C17: when the settings hold minFontSize > maxFontSize, which the settings
\* panel can reach, the size updateFontSize resolves is minFontSize for every
\* font-size value that is a number: the lower bound takes precedence.
C17_LowerBoundTakesPrecedence ==
  [][RecomputeStep => \E t \in {State'} : C17_Post(t)]_vars

\* the panel set minFontSize 2 and maxFontSize 0.4; a.md holds 0.45, between
\* the two, and is shown at 2
C17_Witness ==
  /\ loaded
  /\ activeLeaf = "L1"
  /\ settings.minFontSize = Fin(2 * Unit)
  /\ settings.maxFontSize = Fin((4 * Unit) \div 10)
  /\ cache["a.md"] = NumValue(Fin((45 * Unit) \div 100))
  /\ ViewStyled(State, "L1", <<"2", "r", "e", "m">>)
  /\ statusShown
  /\ statusText = FontPrefix \o <<"2", ".", "0", "0", "r", "e", "m">>

\* ------------------------------------------------------------ C16
\* C16: in every reachable state at most one slider widget is in the
\* document, and one that is in the document is the one this.sliderContainer
\* refers to.
C16_AtMostOneSliderOwned ==
  /\ \A l \in Leaves : headerSliders[l] <= 1
  /\ \A l, m \in Leaves : (headerSliders[l] = 1 /\ headerSliders[m] = 1) => l = m
  /\ \A l \in Leaves :
       headerSliders[l] = 1 =>
         /\ sliderContainer # <<>>
         /\ sliderContainer[1].view = l
         /\ sliderContainer[1].attached

\* a slider is in b.md's header while a.md is active: it is the only one in
\* the document and the one the plugin refers to
C16_Witness ==
  /\ loaded
  /\ activeLeaf = "L1"
  /\ sliderContainer # <<>>
  /\ sliderContainer[1].view = "L2"
  /\ sliderContainer[1].shown
  /\ headerSliders = [l \in Leaves |-> IF l = "L2" THEN 1 ELSE 0]

\* ------------------------------------------------------------ C18
\* the document a slider input writes to
SliderDoc(s) == ViewFile(s.sliderContainer[1].view)

\* C18: whenever the slider is visible, the value of its range control is
\* the resolved font size of the document a slider input would write to (the
\* document of the view that was active when the slider was created), also
\* after the active view has changed to a view of another document.  Stated
\* for the states in which no write is in flight, none has failed, and that
\* document's size lies between the current bounds.
C18_SliderValueIsOwnDocumentSize ==
  (/\ loaded
   /\ sliderContainer # <<>>
   /\ sliderContainer[1].shown
   /\ writes = <<>>
   /\ ~consoleErrors
   /\ Resolve(settings, cache[SliderDoc(State)]) # <<>>
   /\ Resolve(settings, cache[SliderDoc(State)]) =
        ParseFontSize(cache[SliderDoc(State)])) =>
    ParseFloat(sliderContainer[1].value) =
      Resolve(settings, cache[SliderDoc(State)])[1]

\* ------------------------------------------------------------ C19
\* view l is styled as its document's cached font-size says
C19_ViewFollowsDocument(s, l) ==
  LET r == Resolve(s.settings, s.cache[ViewFile(l)])
  IN IF r # <<>> THEN ViewStyled(s, l, NumToString(r[1]) \o RemStr)
     ELSE ViewUnstyled(s, l)

\* C19 as stated: while the plugin is active and no host event is pending,
\* every open view, active or not, whose document has a valid cached
\* font-size carries that value, clamped, as inline style, and every open
\* view whose document has none carries no plugin styling.
C19_EveryViewFollowsItsDocument ==
  (loaded /\ writes = <<>>) =>
    \A l \in Leaves :
      (IsMarkdownView(l) /\ ViewFile(l) # NoFile) =>
        C19_ViewFollowsDocument(State, l)

C19_Amended(s, t) ==
  IF ActiveDoc(t) # NoFile
  THEN /\ C19_ViewFollowsDocument(t, t.activeLeaf)
       /\ \A l \in Leaves \ {t.activeLeaf} : t.dom[l] = s.dom[l]
  ELSE \A l \in Leaves : ViewUnstyled(t, l)

\* C19 amended: right after every recompute, the active view carries its
\* document's valid cached font-size, clamped, as inline style, or no plugin
\* styling when the document has none; the views that are not active are
\* left as they were, whatever their documents hold, and a recompute that
\* finds no active document removes the styling of every view.
C19_ActiveViewFollowsItsDocument ==
  [][RecomputeStep =>
       \E s \in {State} : \E t \in {State'} : C19_Amended(s, t)]_vars

\* a.md is active and styled; b.md holds 2rem and its view, never active,
\* carries no styling
C19_Witness ==
  /\ loaded
  /\ activeLeaf = "L1"
  /\ writes = <<>>
  /\ cache["a.md"] = StrValue(<<"1", ".", "5", "r", "e", "m">>)
  /\ cache["b.md"] = StrValue(<<"2", "r", "e", "m">>)
  /\ ViewStyled(State, "L1", <<"1", ".", "5", "r", "e", "m">>)
  /\ ViewUnstyled(State, "L2")

\* ------------------------------------------------------------ C20
\* C20: whenever the slider widget exists, the numeric text shown next to it
\* is the value of its range control with two decimals and the "rem" suffix,
\* after slider inputs and after recomputes alike.
C20_DisplayedTextIsControlValue ==
  (loaded /\ sliderContainer # <<>>) =>
    sliderContainer[1].display =
      ToFixed2(ParseFloat(sliderContainer[1].value)) \o RemStr

====
